---- MODULE Spec2Model ----
(***************************************************************************)
(* byhead (src/main.rs): a three-stage pipeline.  The main thread decodes  *)
(* UDP datagrams into six f64 numbers and try_sends them into a one-slot   *)
(* channel; the classifier thread keeps a history of PoseRecords, derives  *)
(* velocity and acceleration and sends Signals into a second one-slot      *)
(* channel; the dispatcher thread debounces the Signals and issues focus   *)
(* commands to the compositor.                                             *)
(*                                                                         *)
(* Time is counted in ticks of TickMs milliseconds.  An f64 is modelled as *)
(* an exact fraction [n, d] in lowest terms with d >= 0; d = 0 encodes the *)
(* IEEE special values: n = 1 is +inf, n = -1 is -inf and n = 0 is NaN.    *)
(* Rounding of finite results is not modelled, and neither is -0.0 (no     *)
(* input of the model is -0.0, and x - x and 0.0 / t are +0.0).            *)
(***************************************************************************)
EXTENDS Integers, Sequences, FiniteSets, TLC

\* ------------------------------------------------------------------ bounds
\* Milliseconds per tick of the model's clock.
TickMs == 10
\* Datagrams the socket delivers in one run.
MaxDatagrams == 3
\* The last tick the clock reaches by a step of the debounce interval, and the
\* last tick it reaches at all.
MaxDebounceClock == 55
MaxClock == 116
\* Samples fed to the classifier in one run that exercises it alone.
MaxFed == 3
\* Samples a run that starts from a warmed-up history has already processed.
WarmSamples == 15
\* Degrees of head rotation between two poses the sensor reports.
PoseStep == 2
\* Signals sent to the dispatcher in one run that exercises it alone.
MaxEmitted == 4
\* Datagrams delivered, and the last tick the clock reaches, in one run in
\* which every call of the dispatcher succeeds.
MaxLiveDatagrams == 4
MaxLiveClock == 16

\* --------------------------------------------------------------- constants
DatagramLen == 48
HistoryCapacity == 4000
WarmupLen == 16
IdleTimeMs == 500
YawThreshold == 36
PitchThreshold == 40
AccelThreshold == 1000
DebounceMs == 200
DiscontinuityMs == 1000

\* ------------------------------------------------------------------- f64
IAbs(i) == IF i < 0 THEN -i ELSE i
ISgn(i) == IF i > 0 THEN 1 ELSE IF i < 0 THEN -1 ELSE 0

RECURSIVE Gcd(_, _)
Gcd(a, b) == IF b = 0 THEN a ELSE Gcd(b, a % b)

\* The f64 n/d (d >= 0) in canonical form.
F(n, d) ==
    IF d = 0 THEN [n |-> ISgn(n), d |-> 0]
    ELSE LET g == Gcd(IAbs(n), d) IN [n |-> n \div g, d |-> d \div g]

FInt(i) == [n |-> i, d |-> 1]
NaN == [n |-> 0, d |-> 0]
IsNaN(a) == a.d = 0 /\ a.n = 0
IsInf(a) == a.d = 0 /\ a.n # 0

\* f64 addition.
FAdd(a, b) ==
    IF IsNaN(a) \/ IsNaN(b) THEN NaN
    ELSE IF IsInf(a) /\ IsInf(b) THEN (IF a.n = b.n THEN a ELSE NaN)
    ELSE IF IsInf(a) THEN a
    ELSE IF IsInf(b) THEN b
    ELSE F(a.n * b.d + b.n * a.d, a.d * b.d)

FNeg(a) == [n |-> -a.n, d |-> a.d]

\* f64 subtraction.
FSub(a, b) == FAdd(a, FNeg(b))

\* f64 division a / b.
FDiv(a, b) ==
    IF IsNaN(a) \/ IsNaN(b) THEN NaN
    ELSE IF IsInf(b) THEN (IF IsInf(a) THEN NaN ELSE FInt(0))
    ELSE IF b.n = 0 THEN F(a.n, 0)
    ELSE IF IsInf(a) THEN F(a.n * ISgn(b.n), 0)
    ELSE F(a.n * b.d * ISgn(b.n), a.d * IAbs(b.n))

\* f64::abs
FAbs(a) == [n |-> IAbs(a.n), d |-> a.d]

\* a < b on f64: false when either side is NaN.
FLt(a, b) ==
    /\ ~IsNaN(a)
    /\ ~IsNaN(b)
    /\ IF IsInf(a) \/ IsInf(b)
       THEN /\ a # b
            /\ \/ (IsInf(a) /\ a.n = -1)
               \/ (IsInf(b) /\ b.n = 1)
       ELSE a.n * b.d < b.n * a.d

FGt(a, b) == FLt(b, a)
\* a == b on f64: false when either side is NaN.
FEq(a, b) == ~IsNaN(a) /\ ~IsNaN(b) /\ a = b
FGe(a, b) == FGt(a, b) \/ FEq(a, b)

\* f64::signum: 1.0 for positive values, +0.0 and +inf, -1.0 for negative
\* values and -inf, NaN for NaN.
Signum(a) == IF IsNaN(a) THEN NaN ELSE IF a.n >= 0 THEN FInt(1) ELSE FInt(-1)

\* Duration::as_secs_f64 of a duration of t ticks.
AsSecsF64(t) == F(t * TickMs, 1000)
\* Duration::as_millis of a duration of t ticks.
AsMillis(t) == t * TickMs
\* Instant::duration_since, which saturates at zero.
DurationSince(later, earlier) == IF later >= earlier THEN later - earlier ELSE 0

\* ------------------------------------------------------------------ Pose
Fields == {"x", "y", "z", "yaw", "pitch", "roll"}

PoseSub(a, b) == [f \in Fields |-> FSub(a[f], b[f])]
PoseDivF(a, s) == [f \in Fields |-> FDiv(a[f], s)]
\* Pose::diff
PoseDiff(a, other, delta) == PoseDivF(PoseSub(a, other), delta)
\* Pose::default
PoseDefault == [f \in Fields |-> FInt(0)]

\* The Pose the classifier builds from the six received numbers.
PoseOf(numbers) ==
    [x |-> numbers[1], y |-> numbers[2], z |-> numbers[3],
     yaw |-> numbers[4], pitch |-> numbers[5], roll |-> numbers[6]]

\* ------------------------------------------------------------ PoseRecord
PoseRecord(pose, v, instant, delta) ==
    [pose |-> pose, v |-> v, instant |-> instant, delta |-> delta]

\* VecDeque::truncate(n): keeps the n elements nearest the front.
TruncateMutant(h, n) == IF Len(h) > n THEN SubSeq(h, Len(h) - n + 1, Len(h)) ELSE h
Truncate(h, n) == IF Len(h) > n THEN SubSeq(h, 1, n) ELSE h
\* VecDeque::push_front
PushFront(h, r) == <<r>> \o h

\* ---------------------------------------------------------------- Signal
NoSignals == <<>>
YawSignals == {"LeftColumn", "RightColumn"}
PitchSignals == {"Up", "Down"}
Signal == YawSignals \cup PitchSignals \cup {"LeftMonitor", "RightMonitor", "Nop"}

\* ------------------------------------------------------------ classifier
\* The record built for a sample when the history is not empty.
NewRecordMutant(history, pose, now) ==
    LET prev == history[1]
        delta == AsSecsF64(DurationSince(now, prev.instant))
    IN  IF Len(history) >= 3
        THEN LET prev_2 == history[2]
             IN  PoseRecord(pose,
                            PoseDiff(pose, prev_2.pose,
                                     AsSecsF64(DurationSince(now, prev_2.instant))),
                            now, delta)
        ELSE PoseRecord(pose, PoseDiff(pose, prev.pose, delta), now, delta)
NewRecord(history, pose, now) ==
    LET prev == history[1]
        delta == AsSecsF64(DurationSince(now, prev.instant))
    IN  IF Len(history) >= 3
        THEN LET prev_2 == history[3]
             IN  PoseRecord(pose,
                            PoseDiff(pose, prev_2.pose,
                                     AsSecsF64(DurationSince(now, prev_2.instant))),
                            now, delta)
        ELSE PoseRecord(pose, PoseDiff(pose, prev.pose, delta), now, delta)

\* delta > 1.0
DiscontinuityMutant(delta) == FGe(delta, F(DiscontinuityMs, 1000))
Discontinuity(delta) == FGt(delta, F(DiscontinuityMs, 1000))

\* history_len < 16
TooShortMutant(history_len) == history_len < 2
TooShort(history_len) == history_len < WarmupLen

\* The closure of from_idle's all(): the record x is idle or moves with record.
SameDirectionMutant(x, record) ==
    FEq(Signum(x.v.pitch), Signum(record.v.pitch))
SameDirection(x, record) ==
    /\ FEq(Signum(x.v.yaw), Signum(record.v.yaw))
    /\ FEq(Signum(x.v.pitch), Signum(record.v.pitch))

IdleOrSameDirectionMutant(x, record) ==
    \/ FLt(FAbs(x.v.yaw), FInt(YawThreshold))
    \/ FLt(FAbs(x.v.pitch), FInt(PitchThreshold))
    \/ SameDirection(x, record)
IdleOrSameDirection(x, record) ==
    \/ /\ FLt(FAbs(x.v.yaw), FInt(YawThreshold))
       /\ FLt(FAbs(x.v.pitch), FInt(PitchThreshold))
    \/ SameDirection(x, record)

\* iter().skip(1).take_while(age < idle_time): the index of the last record
\* it yields, scanning from index i (i - 1 when it yields none).
RECURSIVE TakeWhileEnd(_, _, _)
TakeWhileEnd(history, now, i) ==
    IF i > Len(history) THEN i - 1
    ELSE IF AsMillis(DurationSince(now, history[i].instant)) < IdleTimeMs
    THEN TakeWhileEnd(history, now, i + 1)
    ELSE i - 1

\* from_idle
FromIdle(history, record, now) ==
    \A i \in 2..TakeWhileEnd(history, now, 2) :
        IdleOrSameDirection(history[i], record)

\* acc
AccMutant(history, delta) == PoseSub(history[1].v, history[2].v)
Acc(history, delta) == PoseDiff(history[1].v, history[2].v, delta)

\* The Signal sent in the yaw branch.
YawSignalMutant(v) == IF FGt(v.yaw, FInt(0)) THEN "LeftColumn" ELSE "RightColumn"
YawSignal(v) == IF FLt(v.yaw, FInt(0)) THEN "LeftColumn" ELSE "RightColumn"

\* The Signal sent in the pitch branch.
PitchSignal(v) == IF FLt(v.pitch, FInt(0)) THEN "Down" ELSE "Up"

\* The condition of the yaw branch.
YawBranchMutant(v, acc) ==
    /\ FGt(FAbs(acc.yaw), FInt(AccelThreshold))
    /\ FGt(FAbs(v.yaw), FAbs(v.pitch))
YawBranch(v, acc) ==
    /\ FGe(FAbs(v.yaw), FInt(YawThreshold))
    /\ FGt(FAbs(acc.yaw), FInt(AccelThreshold))
    /\ FGt(FAbs(v.yaw), FAbs(v.pitch))

\* The condition of the pitch branch.
PitchBranch(v, acc) ==
    /\ FGt(FAbs(v.pitch), FInt(PitchThreshold))
    /\ FGt(FAbs(acc.pitch), FInt(AccelThreshold))

\* The Signals the yaw/pitch decision sends for the newest record, in order.
DecideMutant(history, record, now) ==
    LET acc == Acc(history, record.delta)
        from_idle == FromIdle(history, record, now)
    IN  (IF YawBranch(record.v, acc) /\ from_idle
         THEN <<YawSignal(record.v)>> ELSE <<>>)
        \o (IF PitchBranch(record.v, acc) /\ from_idle
            THEN <<PitchSignal(record.v)>> ELSE <<>>)
Decide(history, record, now) ==
    LET acc == Acc(history, record.delta)
        from_idle == FromIdle(history, record, now)
    IN  IF YawBranch(record.v, acc)
        THEN (IF ~from_idle THEN NoSignals ELSE <<YawSignal(record.v)>>)
        ELSE IF PitchBranch(record.v, acc)
        THEN (IF ~from_idle THEN NoSignals ELSE <<PitchSignal(record.v)>>)
        ELSE NoSignals

\* One iteration of the classifier loop after raw_rx.recv() returned numbers:
\* the history it leaves and the Signals it goes on to send.
Process(history, numbers, now) ==
    LET pose == PoseOf(numbers)
    IN  IF history = <<>>
        THEN [history |-> PushFront(history,
                                    PoseRecord(pose, PoseDefault, now, FInt(0))),
              signals |-> NoSignals]
        ELSE LET record == NewRecord(history, pose, now)
                 pushed == PushFront(history, record)
             IN  IF Discontinuity(record.delta)
                 THEN [history |-> Truncate(pushed, 1), signals |-> NoSignals]
                 ELSE IF TooShort(Len(pushed))
                 THEN [history |-> pushed, signals |-> NoSignals]
                 ELSE [history |-> pushed,
                       signals |-> Decide(pushed, record, now)]

\* ------------------------------------------------------------- datagrams
\* The six numbers of a datagram that reports the given yaw and pitch.
Numbers(yaw, pitch) ==
    <<FInt(0), FInt(0), FInt(0), FInt(yaw), FInt(pitch), FInt(0)>>

\* A well-formed datagram reporting yaw and pitch in units of PoseStep degrees.
Sample(yaw, pitch) ==
    [len |-> DatagramLen, numbers |-> Numbers(yaw * PoseStep, pitch * PoseStep)]

\* The datagrams that are dropped: a short one and one carrying a NaN.  Their
\* yaw is one no well-formed datagram of the model reports.
ShortDatagram == [len |-> DatagramLen - 1, numbers |-> Numbers(7 * PoseStep, 0)]
NaNDatagram ==
    [len |-> DatagramLen,
     numbers |-> <<FInt(0), FInt(0), FInt(0), FInt(7 * PoseStep), NaN, FInt(0)>>]

\* What the socket delivers in the runs of the whole pipeline.
Datagrams == {Sample(1, 0), Sample(2, 1), ShortDatagram, NaNDatagram}
\* How far the clock advances at once there, in ticks: the debounce interval
\* (20 ticks of 10 ms) and just over the discontinuity limit.
DebounceStep == 20
StallStep == 101
Steps == {DebounceStep, StallStep}

\* A well-formed datagram whose yaw, reached from rest over three sample
\* periods of one tick, is a yaw velocity of exactly the yaw threshold.
ThresholdSample ==
    [len |-> DatagramLen,
     numbers |-> <<FInt(0), FInt(0), FInt(0), F(YawThreshold * 3 * TickMs, 1000),
                   FInt(0), FInt(0)>>]

\* What the socket delivers in the runs that exercise the gesture decision.
GestureDatagrams ==
    {Sample(0, 0), Sample(1, 0), Sample(-1, 0), Sample(1, -1), Sample(1, 1),
     Sample(2, 1), ThresholdSample}
\* The ticks between two of them: the same tick, one sample period, and just
\* over the discontinuity limit.
GestureSteps == {0, 1, StallStep}

\* What the socket delivers in the runs that exercise the history, and the
\* ticks between two samples there: the same tick, one sample period, the
\* longest gap that is not a discontinuity (1.0 s, as far as ticks divide it)
\* and just over it.
HistoryDatagrams == {Sample(0, 0), Sample(1, 0)}
BoundaryStep == DiscontinuityMs \div TickMs
HistorySteps == {0, 1, BoundaryStep, StallStep}

\* --------------------------------------------------------------- channels
\* sync_channel(1)
ChannelBound == 1

\* SyncSender::try_send on a channel whose receiver is alive: the queue it
\* leaves (the message is dropped when the buffer is full).
IsFull(q) == Len(q) >= ChannelBound
TrySendMutant(q, msg) == IF IsFull(q) THEN <<msg>> ELSE Append(q, msg)
TrySend(q, msg) == IF IsFull(q) THEN q ELSE Append(q, msg)

\* Receiver::recv on a non-empty channel: the message taken and the queue left.
RecvMutant(q) == [msg |-> Head(q), rest |-> q]
Recv(q) == [msg |-> Head(q), rest |-> Tail(q)]

\* numbers.iter().any(|&x| x.is_nan())
AnyNaNMutant(numbers) == FALSE
AnyNaN(numbers) == \E i \in 1..Len(numbers) : IsNaN(numbers[i])

\* delta < 0.20 in the dispatcher
TooSoonMutant(delta) == FLt(delta, F(DebounceMs, 10000))
TooSoon(delta) == FLt(delta, F(DebounceMs, 1000))

\* prev_instant after a Signal that came too soon: prev_instant = now; continue
SuppressedPrevMutant(prev, instant) == prev
SuppressedPrev(prev, instant) == instant

\* The command the dispatcher issues for a Signal ("" for none).
Command(signal) ==
    CASE signal = "LeftColumn" -> "FocusColumnLeft"
      [] signal = "RightColumn" -> "FocusColumnRight"
      [] signal = "Up" -> "FocusWindowOrWorkspaceUp"
      [] signal = "Down" -> "FocusWindowOrWorkspaceDown"
      [] signal = "LeftMonitor" -> "FocusMonitorLeft"
      [] signal = "RightMonitor" -> "FocusMonitorRight"
      [] OTHER -> ""

\* ------------------------------------------------------------------ state
VARIABLES
    clock,          \* the monotonic clock, in ticks
    alive,          \* the process is running
    raw,            \* the raw channel's buffer: the numbers sent, each tagged
                    \* with its index in decoded (seq), its datagram's number
                    \* (arrival) and the tick the datagram came in (arrived)
    sig,            \* the signal channel's buffer
    history,        \* classifier: VecDeque<PoseRecord>, front first
    now,            \* classifier: the Instant read at the top of the loop
    pcC,            \* classifier: "top", "recv", "send" or "dead"
    pending,        \* classifier: the Signals still to send for this sample
    pcD,            \* dispatcher: "connect", "recv" or "dead"
    prev_instant,   \* dispatcher
    decoded,        \* log: the numbers of every sample ingestion decoded
    processed,      \* log: every sample the classifier took, and the tick its
                    \* recv returned (at)
    decided,        \* log: the Signals decided for the newest sample
    sent,           \* log: the Signals the classifier's sends delivered
    received,       \* log: [signal, at] of every Signal the dispatcher took
    commands,       \* log: [command, at] of every command issued
    nDatagrams      \* datagrams delivered so far in this run

vars ==
    <<clock, alive, raw, sig, history, now, pcC, pending, pcD, prev_instant,
      decoded, processed, decided, sent, received, commands, nDatagrams>>

ingestionVars == <<raw, decoded, nDatagrams>>
classifierVars == <<history, now, pcC, pending, processed, decided, sent>>
dispatcherVars == <<pcD, prev_instant, received, commands>>

\* ------------------------------------------------------------------- Init
\* The state when run() has spawned both threads.
InitFresh ==
    /\ clock = 0
    /\ alive = TRUE
    /\ raw = <<>>
    /\ sig = <<>>
    /\ history = <<>>
    /\ now = 0
    /\ pcC = "top"
    /\ pending = <<>>
    /\ pcD = "connect"
    /\ prev_instant = 0
    /\ decoded = <<>>
    /\ processed = <<>>
    /\ decided = <<>>
    /\ sent = <<>>
    /\ received = <<>>
    /\ commands = <<>>
    /\ nDatagrams = 0

\* The history after k samples of the resting pose, one per tick from tick 0.
RECURSIVE RestHistory(_)
RestHistory(k) ==
    IF k = 0 THEN <<>>
    ELSE Process(RestHistory(k - 1), Numbers(0, 0), k - 1).history

\* The state one tick after the last of WarmSamples samples of the resting pose,
\* one per tick, each taken by the classifier in the tick it was decoded in.
InitWarm ==
    /\ clock = WarmSamples
    /\ alive = TRUE
    /\ raw = <<>>
    /\ sig = <<>>
    /\ history = RestHistory(WarmSamples)
    /\ now = WarmSamples - 1
    /\ pcC = "top"
    /\ pending = <<>>
    /\ pcD = "recv"
    /\ prev_instant = 0
    /\ decoded = [i \in 1..WarmSamples |-> Numbers(0, 0)]
    /\ processed = [i \in 1..WarmSamples |->
                      [seq |-> i, arrival |-> 0, numbers |-> Numbers(0, 0),
                       arrived |-> i - 1, at |-> i - 1]]
    /\ decided = <<>>
    /\ sent = <<>>
    /\ received = <<>>
    /\ commands = <<>>
    /\ nDatagrams = 0

Init == InitFresh \/ InitWarm

\* ------------------------------------------------------------------ clock
\* The clock advances by d ticks.
Tick(d, max) ==
    /\ alive
    /\ clock + d <= max
    /\ clock' = clock + d
    /\ UNCHANGED <<alive, raw, sig, decoded, nDatagrams>>
    /\ UNCHANGED classifierVars
    /\ UNCHANGED dispatcherVars

\* -------------------------------------------------------------- ingestion
\* One iteration of the 'recv loop, for the datagram dg.
IngestMutant(dg, max) ==
    /\ alive
    /\ nDatagrams < max
    /\ nDatagrams' = nDatagrams + 1
    /\ IF dg.len # DatagramLen \/ AnyNaN(dg.numbers)
       THEN UNCHANGED <<alive, raw, decoded>>
       ELSE /\ decoded' = Append(decoded, dg.numbers)
            /\ IF pcC = "dead"
               THEN alive' = FALSE /\ UNCHANGED raw
               ELSE /\ ~IsFull(raw)
                    /\ raw' = Append(raw, [numbers |-> dg.numbers,
                                           seq |-> Len(decoded) + 1,
                                           arrival |-> nDatagrams + 1,
                                           arrived |-> clock])
                    /\ UNCHANGED alive
    /\ UNCHANGED <<clock, sig>>
    /\ UNCHANGED classifierVars
    /\ UNCHANGED dispatcherVars
Ingest(dg, max) ==
    /\ alive
    /\ nDatagrams < max
    /\ nDatagrams' = nDatagrams + 1
    /\ IF dg.len # DatagramLen \/ AnyNaN(dg.numbers)
       THEN UNCHANGED <<alive, raw, decoded>>
       ELSE /\ decoded' = Append(decoded, dg.numbers)
            /\ IF pcC = "dead"
               THEN alive' = FALSE /\ UNCHANGED raw
               ELSE /\ raw' = TrySend(raw, [numbers |-> dg.numbers,
                                            seq |-> Len(decoded) + 1,
                                            arrival |-> nDatagrams + 1,
                                            arrived |-> clock])
                    /\ UNCHANGED alive
    /\ UNCHANGED <<clock, sig>>
    /\ UNCHANGED classifierVars
    /\ UNCHANGED dispatcherVars

\* ------------------------------------------------------------- classifier
\* The top of the classifier loop: truncate the history, read the clock.
ClassifierTop ==
    /\ alive
    /\ pcC = "top"
    /\ history' = Truncate(history, HistoryCapacity)
    /\ now' = clock
    /\ pcC' = "recv"
    /\ UNCHANGED <<clock, alive, raw, sig, pending, processed, decided, sent,
                   decoded, nDatagrams>>
    /\ UNCHANGED dispatcherVars

\* raw_rx.recv() returns a sample and the classifier handles it, up to the
\* point where it sends a Signal or goes back to the top of the loop.
ClassifierRecv ==
    /\ alive
    /\ pcC = "recv"
    /\ raw # <<>>
    /\ LET got == Recv(raw)
           out == Process(history, got.msg.numbers, now)
       IN  /\ raw' = got.rest
           /\ history' = out.history
           /\ decided' = out.signals
           /\ pending' = out.signals
           /\ pcC' = IF out.signals = <<>> THEN "top" ELSE "send"
           /\ processed' = Append(processed,
                                  [seq |-> got.msg.seq,
                                   arrival |-> got.msg.arrival,
                                   arrived |-> got.msg.arrived,
                                   numbers |-> got.msg.numbers,
                                   at |-> clock])
    /\ UNCHANGED <<clock, alive, sig, now, sent, decoded, nDatagrams>>
    /\ UNCHANGED dispatcherVars

\* sig_tx.send(..).unwrap() of the first pending Signal: it waits while the
\* buffer is full and panics the classifier thread when the dispatcher is gone.
ClassifierSend ==
    /\ alive
    /\ pcC = "send"
    /\ IF pcD = "dead"
       THEN /\ pcC' = "dead"
            /\ pending' = <<>>
            /\ raw' = <<>>
            /\ UNCHANGED <<sig, sent>>
       ELSE /\ ~IsFull(sig)
            /\ sig' = Append(sig, Head(pending))
            /\ sent' = Append(sent, Head(pending))
            /\ pending' = Tail(pending)
            /\ pcC' = IF Tail(pending) = <<>> THEN "top" ELSE "send"
            /\ UNCHANGED raw
    /\ UNCHANGED <<clock, alive, history, now, processed, decided, decoded,
                   nDatagrams>>
    /\ UNCHANGED dispatcherVars

\* ------------------------------------------------------------- dispatcher
\* Socket::connect() succeeds.
DispatcherConnect ==
    /\ alive
    /\ pcD = "connect"
    /\ pcD' = "recv"
    /\ UNCHANGED <<clock, alive, raw, sig, prev_instant, received, commands,
                   decoded, nDatagrams>>
    /\ UNCHANGED classifierVars

\* Socket::connect() fails: expect() panics the dispatcher thread, which drops
\* sig_rx and what the channel buffers.
DispatcherConnectFail ==
    /\ alive
    /\ pcD = "connect"
    /\ pcD' = "dead"
    /\ sig' = <<>>
    /\ UNCHANGED <<clock, alive, raw, prev_instant, received, commands,
                   decoded, nDatagrams>>
    /\ UNCHANGED classifierVars

\* sig_rx.recv() returns a Signal and the dispatcher handles it; ok tells
\* whether the compositor answers the request.  When it does not, unwrap()
\* panics the dispatcher thread, which drops sig_rx and what the channel buffers.
DispatcherRecv(ok) ==
    /\ alive
    /\ pcD = "recv"
    /\ sig # <<>>
    /\ LET got == Recv(sig)
           delta == AsSecsF64(DurationSince(clock, prev_instant))
       IN  /\ received' = Append(received, [signal |-> got.msg, at |-> clock])
           /\ IF TooSoon(delta) \/ Command(got.msg) = ""
              THEN /\ ok
                   /\ sig' = got.rest
                   /\ prev_instant' = IF TooSoon(delta)
                                      THEN SuppressedPrev(prev_instant, clock)
                                      ELSE clock
                   /\ pcD' = "connect"
                   /\ UNCHANGED commands
              ELSE IF ok
              THEN /\ sig' = got.rest
                   /\ commands' = Append(commands,
                                         [command |-> Command(got.msg), at |-> clock])
                   /\ prev_instant' = clock
                   /\ pcD' = "connect"
              ELSE /\ sig' = <<>>
                   /\ pcD' = "dead"
                   /\ UNCHANGED <<prev_instant, commands>>
    /\ UNCHANGED <<clock, alive, raw, decoded, nDatagrams>>
    /\ UNCHANGED classifierVars

\* The threads' steps.
Threads ==
    \/ ClassifierTop
    \/ ClassifierRecv
    \/ ClassifierSend
    \/ DispatcherConnect
    \/ DispatcherConnectFail
    \/ \E ok \in BOOLEAN : DispatcherRecv(ok)

Next ==
    \/ \E d \in Steps :
          Tick(d, IF d = DebounceStep THEN MaxDebounceClock ELSE MaxClock)
    \/ \E dg \in Datagrams : Ingest(dg, MaxDatagrams)
    \/ Threads

\* The whole pipeline, from start-up or from a warmed-up history.
Spec == Init /\ [][Next]_vars

\* The classifier alone: d ticks after the last sample the next one arrives,
\* and the classifier, waiting in recv with the clock just read, handles it.
\* The Signals it would send are recorded in decided; the channels and the
\* dispatcher are left out.
Feed(dg, d) ==
    /\ alive
    /\ pcC = "top"
    /\ nDatagrams < MaxFed
    /\ dg.len = DatagramLen
    /\ ~AnyNaN(dg.numbers)
    /\ LET out == Process(Truncate(history, HistoryCapacity), dg.numbers, clock + d)
       IN  /\ clock' = clock + d
           /\ now' = clock + d
           /\ history' = out.history
           /\ decided' = out.signals
           /\ decoded' = Append(decoded, dg.numbers)
           /\ processed' = Append(processed,
                                  [seq |-> Len(decoded) + 1,
                                   arrival |-> nDatagrams + 1,
                                   arrived |-> clock + d,
                                   numbers |-> dg.numbers,
                                   at |-> clock + d])
    /\ nDatagrams' = nDatagrams + 1
    /\ UNCHANGED <<alive, raw, sig, pcC, pending, sent>>
    /\ UNCHANGED dispatcherVars

NextGesture == \E dg \in GestureDatagrams : \E d \in GestureSteps : Feed(dg, d)

\* The gesture decision, from start-up or from a warmed-up history.
SpecGesture == Init /\ [][NextGesture]_vars

\* The Signals sent in the runs that exercise the dispatcher alone, and the
\* ticks between two of them: the same tick, less than the debounce interval
\* (twice that is more than it), and the debounce interval.
DispatchSignals == {"LeftColumn", "Up"}
ShortStep == 15
DispatchSteps == {0, ShortStep, DebounceStep}

\* The dispatcher alone: d ticks after the last Signal the classifier's
\* sig_tx.send() puts the next one into the signal channel.
Emit(signal, d) ==
    /\ alive
    /\ pcD # "dead"
    /\ Len(sent) < MaxEmitted
    /\ ~IsFull(sig)
    /\ clock' = clock + d
    /\ sig' = Append(sig, signal)
    /\ sent' = Append(sent, signal)
    /\ UNCHANGED <<alive, raw, history, now, pcC, pending, processed, decided,
                   decoded, nDatagrams>>
    /\ UNCHANGED dispatcherVars

NextDispatch ==
    \/ \E signal \in DispatchSignals : \E d \in DispatchSteps : Emit(signal, d)
    \/ DispatcherConnect
    \/ DispatcherConnectFail
    \/ \E ok \in BOOLEAN : DispatcherRecv(ok)

\* The debounce, from start-up.
SpecDispatch == InitFresh /\ [][NextDispatch]_vars

\* The pipeline while the compositor answers, from a warmed-up history:
\* Socket::connect() and socket.send() succeed, and every thread that can take
\* a step eventually takes one.  The clock advances by one sample period and
\* the head turns steadily: each datagram reports one PoseStep more of yaw.
LiveDatagram == Sample(nDatagrams + 1, 0)

NextLive ==
    \/ Tick(1, MaxLiveClock)
    \/ Ingest(LiveDatagram, MaxLiveDatagrams)
    \/ ClassifierTop
    \/ ClassifierRecv
    \/ ClassifierSend
    \/ DispatcherConnect
    \/ DispatcherRecv(TRUE)

SpecLive ==
    /\ InitWarm
    /\ [][NextLive]_vars
    /\ WF_vars(ClassifierSend)
    /\ WF_vars(DispatcherConnect)
    /\ WF_vars(DispatcherRecv(TRUE))

\* The history after k samples of the resting pose, one per tick from tick 0,
\* written out record by record.
RestRecords(k) ==
    [i \in 1..k |->
        PoseRecord(PoseDefault, PoseDefault, k - i,
                   IF i = k THEN FInt(0) ELSE AsSecsF64(1))]

\* The state one tick after the last of HistoryCapacity samples of the resting
\* pose, one per tick: the history is as long as truncate() leaves it.
InitFull ==
    /\ clock = HistoryCapacity
    /\ alive = TRUE
    /\ raw = <<>>
    /\ sig = <<>>
    /\ history = RestRecords(HistoryCapacity)
    /\ now = HistoryCapacity - 1
    /\ pcC = "top"
    /\ pending = <<>>
    /\ pcD = "recv"
    /\ prev_instant = 0
    /\ decoded = [i \in 1..HistoryCapacity |-> Numbers(0, 0)]
    /\ processed = [i \in 1..HistoryCapacity |->
                      [seq |-> i, arrival |-> 0, numbers |-> Numbers(0, 0),
                       arrived |-> i - 1, at |-> i - 1]]
    /\ decided = <<>>
    /\ sent = <<>>
    /\ received = <<>>
    /\ commands = <<>>
    /\ nDatagrams = 0

InitHistory == InitFresh \/ InitWarm \/ InitFull

NextHistory == \E dg \in HistoryDatagrams : \E d \in HistorySteps : Feed(dg, d)

\* The history management, from start-up, from a warmed-up history or from a
\* history at capacity.
SpecHistory == InitHistory /\ [][NextHistory]_vars

\* ----------------------------------------------------------------- claims
\* The newest record and the acceleration the decision computes for it.
Newest == history[1]
NewestAcc == Acc(history, Newest.delta)
\* The age of history[i] when the newest record was handled.
AgeMs(i) == AsMillis(DurationSince(Newest.instant, history[i].instant))
\* The time between the arrivals of the samples processed[k - 1] and processed[k].
GapMs(k) == AsMillis(processed[k].at - processed[k - 1].at)
Elems(q) == {q[i] : i \in 1..Len(q)}
\* Time has passed between the newest record and the one before it.
Elapsed == Len(history) >= 2 /\ FGt(Newest.delta, FInt(0))

\* C1: no Signal is decided for a sample that leaves the history shorter than
\* 16 records; a Signal needs 16 samples, the last 15 of them each at most
\* 1.0 s after the one before (none of them reset the history).
C1_WarmUp ==
    decided # <<>> =>
        /\ Len(history) >= 16
        /\ Len(processed) >= 16
        /\ \A k \in (Len(processed) - 14)..Len(processed) : GapMs(k) <= 1000

\* A discontinuity has reset the history, a later sample crosses the
\* thresholds, and nothing is decided because the history is still short.
C1_Witness ==
    /\ Len(history) \in 2..15
    /\ Elapsed
    /\ Len(processed) > Len(history)
    /\ decided = <<>>
    /\ Decide(history, Newest, Newest.instant) # <<>>

\* The last two samples the classifier took came in more than 1.0 s apart, and
\* the classifier received them more than 1.0 s apart.
ArrivalGap ==
    /\ Len(processed) >= 2
    /\ GapMs(Len(processed)) > 1000
    /\ AsMillis(processed[Len(processed)].arrived
                - processed[Len(processed) - 1].arrived) > 1000

\* C2 (as claimed): when the classifier receives two consecutive samples more
\* than 1.0 s apart, then once it has handled the second the history holds
\* only that sample's record.
C2_ArrivalGapClears == ArrivalGap => Len(history) = 1

BothExceed ==
    /\ Len(history) >= 2
    /\ FGe(FAbs(Newest.v.yaw), FInt(36))
    /\ FGt(FAbs(Newest.v.pitch), FInt(40))

\* C4 (as claimed): for a sample whose yaw and pitch velocity both exceed their
\* thresholds no pitch Signal is decided, and never two Signals.  (Stated for
\* the samples that come a positive time after their predecessor.)
C4_Original ==
    (BothExceed /\ Elapsed) =>
        /\ Len(decided) <= 1
        /\ Elems(decided) \cap PitchSignals = {}

\* C4 (amended): at most one Signal is decided per sample; and for a sample
\* whose yaw and pitch velocity both exceed their thresholds, whose yaw
\* acceleration exceeds 1000 in magnitude and whose yaw velocity is larger in
\* magnitude than its pitch velocity, no pitch Signal is decided.
C4_YawPriority ==
    /\ Len(decided) <= 1
    /\ ( /\ BothExceed
         /\ FGt(FAbs(NewestAcc.yaw), FInt(1000))
         /\ FGt(FAbs(Newest.v.yaw), FAbs(Newest.v.pitch)) )
       => Elems(decided) \cap PitchSignals = {}

\* Both velocities exceed their thresholds, yaw dominates, and the yaw Signal
\* is the one decided.
C4_Witness ==
    /\ BothExceed
    /\ Elapsed
    /\ FGt(FAbs(NewestAcc.yaw), FInt(1000))
    /\ FGt(FAbs(Newest.v.yaw), FAbs(Newest.v.pitch))
    /\ Len(decided) = 1
    /\ decided[1] \in YawSignals

\* history[i] is an older record inside the idle window that turns fast the
\* other way than the newest record.
OppositeYaw(i) ==
    /\ i \in 2..Len(history)
    /\ AgeMs(i) < 500
    /\ FGe(FAbs(history[i].v.yaw), FInt(36))
    /\ \/ FLt(history[i].v.yaw, FInt(0)) /\ FGt(Newest.v.yaw, FInt(0))
       \/ FGt(history[i].v.yaw, FInt(0)) /\ FLt(Newest.v.yaw, FInt(0))

\* C5: when a record other than the newest, younger than 500 ms, has a yaw
\* velocity at or above the threshold and of the opposite sign to the newest
\* record's, no yaw Signal is decided for the newest sample.
C5_OppositeSuppressed ==
    (\E i \in 2..Len(history) : OppositeYaw(i)) =>
        Elems(decided) \cap YawSignals = {}

\* The newest record passes the yaw branch's condition after 16 samples, an
\* opposite fast record is in the window, and nothing is decided.
C5_Witness ==
    /\ Len(history) >= 16
    /\ Elapsed
    /\ \E i \in 2..Len(history) : OppositeYaw(i)
    /\ YawBranch(Newest.v, NewestAcc)
    /\ decided = <<>>

\* The numbers of the datagrams the 'recv loop has to drop.
MalformedNumbers == {ShortDatagram.numbers, NaNDatagram.numbers}
\* Samples the classifier had taken when the run began.
TakenBefore == Cardinality({i \in 1..Len(processed) : processed[i].arrival = 0})

\* Nothing of a malformed datagram is decoded, queued or handled.
NoMalformedAccepted ==
    /\ \A m \in Elems(raw) \cup Elems(processed) : m.numbers \notin MalformedNumbers
    /\ \A n \in Elems(decoded) : n \notin MalformedNumbers

\* A step that takes a datagram and decodes no sample from it changes nothing
\* but the count of datagrams.
MalformedChangesNothing ==
    (nDatagrams' = nDatagrams + 1 /\ decoded' = decoded) =>
        UNCHANGED <<clock, alive, raw, sig, history, now, pcC, pending, pcD,
                    prev_instant, processed, decided, sent, received, commands>>

\* C6: a datagram that is not 48 bytes long or carries a NaN is never queued
\* for the classifier, and taking it leaves the queue, the history, the Signals
\* and every other part of the state as they were, so that what follows is
\* handled as if it had never arrived.
C6_MalformedRejected ==
    /\ []NoMalformedAccepted
    /\ [][MalformedChangesNothing]_vars

\* The first datagram was malformed and the second, a valid one, has been
\* handled by the classifier.
C6_Witness ==
    /\ nDatagrams = 2
    /\ Len(decoded) = TakenBefore + 1
    /\ \E e \in Elems(processed) : e.arrival = 2

\* A step in which ingestion decodes a sample while the raw channel is full.
ArrivesWhenFull ==
    /\ decoded' # decoded
    /\ Len(raw) = 1
    /\ alive'

\* C7: the raw channel holds at most one sample and ingestion can always take
\* the next datagram; a sample decoded while the slot is taken is dropped, the
\* queued sample stays as it is, and it is the one the classifier takes next.
C7_LoadShedding ==
    /\ [](Len(raw) <= 1)
    /\ []((alive /\ nDatagrams < MaxDatagrams) =>
             ENABLED Ingest(Sample(1, 0), MaxDatagrams))
    /\ [][ArrivesWhenFull => raw' = raw]_vars
    /\ [][processed' # processed =>
             processed'[Len(processed')].seq = raw[1].seq]_vars

\* A sample is queued and a sample decoded after it has been dropped.
C7_Witness ==
    /\ Len(raw) = 1
    /\ raw[1].seq < Len(decoded)

\* The Signals the dispatcher has taken, in order.
ReceivedSignals == [i \in 1..Len(received) |-> received[i].signal]

\* C8: the samples the classifier has handled are, in order and without
\* repetition, samples ingestion decoded; and the Signals the dispatcher has
\* taken are the Signals the classifier sent, in the order sent (followed,
\* while the dispatcher lives, by the one still in the channel).
C8_Ordering ==
    /\ \A i \in 1..Len(processed) :
          /\ processed[i].seq \in 1..Len(decoded)
          /\ processed[i].numbers = decoded[processed[i].seq]
          /\ \A j \in 1..(i - 1) : processed[j].seq < processed[i].seq
    /\ Len(received) <= Len(sent)
    /\ ReceivedSignals = SubSeq(sent, 1, Len(received))
    /\ pcD # "dead" => ReceivedSignals \o sig = sent

\* The classifier skipped a dropped sample between two it handled, and the
\* dispatcher has taken two Signals.
C8_Witness ==
    /\ Len(received) = 2
    /\ Len(processed) >= 2
    /\ processed[Len(processed)].seq = processed[Len(processed) - 1].seq + 2

\* C9: any two commands the dispatcher issued are at least 200 ms apart, and
\* none was issued for a Signal taken less than 200 ms after the dispatcher
\* started (at tick 0).
C9_Debounce ==
    \A j \in 1..Len(commands) :
        /\ AsMillis(commands[j].at) >= 200
        /\ \A i \in 1..(j - 1) : AsMillis(commands[j].at - commands[i].at) >= 200

\* Two commands have been issued, and a Signal taken in between was dropped.
C9_Witness ==
    /\ Len(commands) = 2
    /\ Len(received) = 3

\* C10 (as claimed): once a producer has attempted a send on a queue whose
\* consumer thread has terminated, the whole process has ended; here for the
\* classifier, which is dead only after such a send.
C10_SendEndsProcess == pcC = "dead" => ~alive

\* C11 (as claimed): no yaw Signal is decided for a record whose yaw velocity
\* is at or below the yaw threshold of 36 deg/s in magnitude.
C11_Original ==
    Elems(decided) \cap YawSignals # {} => FGt(FAbs(Newest.v.yaw), FInt(36))

\* C11 (amended): no yaw Signal is decided for a record whose yaw velocity is
\* below 36 deg/s in magnitude; at exactly 36 deg/s one can be.
C11_ThresholdBoundary ==
    Elems(decided) \cap YawSignals # {} => FGe(FAbs(Newest.v.yaw), FInt(36))

\* A yaw Signal is decided for a yaw velocity of exactly 36 deg/s.
C11_Witness ==
    /\ Elapsed
    /\ decided = <<"RightColumn">>
    /\ Newest.v.yaw = FInt(36)

\* C12 (as claimed): from the back of the history to its front the instants
\* of the records increase strictly; no two records carry the same instant.
C12_StrictlyIncreasing ==
    \A i \in 1..(Len(history) - 1) : history[i].instant > history[i + 1].instant

\* The records the gate looks at: all but the newest that were younger than
\* 500 ms when the newest one was handled.
Window == {i \in 2..Len(history) : AgeMs(i) < 500}
\* history[i] is below both gesture thresholds.
Slow(i) ==
    /\ FLt(FAbs(history[i].v.yaw), FInt(36))
    /\ FLt(FAbs(history[i].v.pitch), FInt(40))
\* history[i] has the sign (signum, +0.0 counting as positive) of the newest
\* record on the given axis.
SameSign(i, axis) == FEq(Signum(history[i].v[axis]), Signum(Newest.v[axis]))
\* The gate with the sign test on both axes.
GateBothSigns == \A i \in Window : Slow(i) \/ (SameSign(i, "yaw") /\ SameSign(i, "pitch"))
\* The axis on which the newest record moves faster, and the gate with the
\* sign test on that axis only.
Dominant ==
    IF FGt(FAbs(Newest.v.yaw), FAbs(Newest.v.pitch)) THEN "yaw" ELSE "pitch"
GateDominantSign == \A i \in Window : Slow(i) \/ SameSign(i, Dominant)
\* The yaw acceleration of the newest record: the difference of its yaw
\* velocity to the previous record's, divided by delta.
YawAcc == FDiv(FSub(Newest.v.yaw, history[2].v.yaw), Newest.delta)

\* C13 (as claimed): for a sample that leaves 16 or more records (so its delta
\* is at most 1.0 s), a yaw velocity at or above the threshold in magnitude
\* and a passing gate are enough for a yaw Signal.  (Stated for the samples
\* that come a positive time after their predecessor.)
C13_Original ==
    ( /\ Len(history) >= 16
      /\ Elapsed
      /\ FGe(FAbs(Newest.v.yaw), FInt(36))
      /\ GateBothSigns )
    => Elems(decided) \cap YawSignals # {}

\* C13 (amended): for a sample that leaves 16 or more records, a yaw Signal is
\* decided whenever the yaw velocity is at or above 36 in magnitude, the yaw
\* acceleration is above 1000 in magnitude, the yaw velocity is larger in
\* magnitude than the pitch velocity, and the gate passes.
C13_Completeness ==
    ( /\ Len(history) >= 16
      /\ FGe(FAbs(Newest.v.yaw), FInt(36))
      /\ FGt(FAbs(YawAcc), FInt(1000))
      /\ FGt(FAbs(Newest.v.yaw), FAbs(Newest.v.pitch))
      /\ GateBothSigns )
    => (Len(decided) = 1 /\ decided[1] \in YawSignals)

\* After a fast turn the head turns on in the same direction: all four
\* conditions hold with a fast record in the window, and a yaw Signal is decided.
C13_Witness ==
    /\ Len(history) >= 16
    /\ Elapsed
    /\ FGe(FAbs(Newest.v.yaw), FInt(36))
    /\ FGt(FAbs(YawAcc), FInt(1000))
    /\ FGt(FAbs(Newest.v.yaw), FAbs(Newest.v.pitch))
    /\ GateBothSigns
    /\ \E i \in Window : ~Slow(i)
    /\ decided = <<"RightColumn">>

\* C14 (as claimed): the gate passes exactly if every record in the window is
\* below both thresholds or has the newest record's sign on the newest
\* record's dominant axis.  Stated for the samples that pass the yaw branch's
\* condition a positive time after their predecessor: for them a Signal is
\* decided exactly if the gate passes.
C14_Original ==
    (Len(history) >= 16 /\ Elapsed /\ YawBranch(Newest.v, NewestAcc)) =>
        (decided # <<>> <=> GateDominantSign)

\* C14 (amended): the gate passes exactly if every record in the window is
\* below both thresholds or has the newest record's sign on both axes, yaw
\* and pitch; and no Signal is decided unless it passes.
C14_GateDefinition ==
    Len(history) >= 16 =>
        /\ FromIdle(history, Newest, Newest.instant) <=> GateBothSigns
        /\ decided # <<>> => GateBothSigns

\* A fast record in the window turns the way of the newest record, which
\* passes the yaw branch's condition, but pitches the other way: nothing is
\* decided.
C14_Witness ==
    /\ Len(history) >= 16
    /\ Elapsed
    /\ YawBranch(Newest.v, NewestAcc)
    /\ FGt(Newest.v.yaw, FInt(0))
    /\ \E i \in Window :
          /\ FGe(history[i].v.yaw, FInt(36))
          /\ ~SameSign(i, "pitch")
    /\ GateDominantSign
    /\ decided = <<>>

\* The smaller of two numbers.
Min(a, b) == IF a < b THEN a ELSE b
\* A step in which the classifier inserts a record into a history that is not
\* empty, and the time in ms from the previous record to the inserted one.
Inserts == processed' # processed /\ history # <<>>
InsertedDeltaMs == (history'[1].instant - history[1].instant) * TickMs

\* What a step that inserts a record does about a discontinuity.
ResetStep ==
    Inserts =>
        /\ history'[1].delta = F(InsertedDeltaMs, 1000)
        /\ InsertedDeltaMs > 1000 =>
              /\ Len(history') = 1
              /\ decided' = <<>>
        /\ InsertedDeltaMs <= 1000 =>
              Tail(history') = SubSeq(history, 1, Min(Len(history), 4000))

\* C15: when the classifier inserts a record whose delta to the previous
\* record exceeds 1.0 s, the history is left holding exactly that record and
\* no Signal is decided in that step; with a delta of 1.0 s or less every
\* record the history held (up to its capacity) is still there behind the
\* new one.
C15_ResetMechanism == [][ResetStep]_vars

\* A sample came exactly 1.0 s after its predecessor and the records were
\* kept; the next came 1.01 s later and the history holds only its record.
C15_Witness ==
    /\ Len(processed) >= 3
    /\ GapMs(Len(processed) - 1) = 1000
    /\ GapMs(Len(processed)) > 1000
    /\ Len(history) = 1
    /\ history[1].pose = PoseOf(processed[Len(processed)].numbers)

\* C16 (as claimed): after every insertion of a record the history holds at
\* most 4000 records.
C16_Original == Len(history) <= 4000

\* What a step that inserts a record leaves of the history: behind the new
\* record the newest records it held before, at most 4000 of them.
CapacityStep ==
    processed' # processed =>
        /\ Len(history') <= 4001
        /\ Tail(history') = SubSeq(history, 1, Len(history') - 1)

\* C16 (amended): after every insertion of a record, and so when the gate and
\* the decision read the history, it holds at most 4001 records: the new one
\* and at most 4000 older ones; the records dropped are the oldest.
C16_CapacityBound ==
    /\ [](Len(history) <= 4001)
    /\ [][CapacityStep]_vars

\* A second sample has been inserted into a history that was at capacity: it
\* holds 4001 records and the two oldest records are gone.
C16_Witness ==
    /\ Len(history) = 4001
    /\ Len(processed) = 4002
    /\ history[4001].instant = 1

\* A step in which the classifier handles a sample at the very instant the
\* newest record carries: no time has elapsed since the record the velocity
\* (in a history of one or two records) and the acceleration are differenced
\* against.
ZeroElapsed ==
    /\ processed' # processed
    /\ history # <<>>
    /\ now' = history[1].instant

\* C17 (as claimed): a sample handled with zero elapsed time is skipped: no
\* record is inserted, the history stays as it is and no Signal is decided.
C17_ZeroElapsedGuard ==
    [][ZeroElapsed => (history' = history /\ decided' = <<>>)]_vars

\* The pose difference of the newest record to history[i], divided by the time
\* between the two records.
VelocityTo(i) ==
    [f \in Fields |->
        FDiv(FSub(Newest.pose[f], history[i].pose[f]),
             F((Newest.instant - history[i].instant) * TickMs, 1000))]

\* C18 (as claimed): a record inserted when three or more records existed has
\* the velocity to the record two slots older than itself (one record
\* skipped); one inserted when one or two existed has the velocity to the
\* record before it.
C18_Original ==
    /\ Len(history) >= 4 => Newest.v = VelocityTo(3)
    /\ Len(history) \in {2, 3} => Newest.v = VelocityTo(2)

\* C18 (amended): a record inserted when three or more records existed has
\* the velocity to the record three slots older than itself (two records
\* skipped); one inserted when one or two existed has the velocity to the
\* record before it, over delta.
C18_VelocityReference ==
    /\ Len(history) >= 4 => Newest.v = VelocityTo(4)
    /\ Len(history) \in {2, 3} =>
          /\ Newest.v = VelocityTo(2)
          /\ Newest.delta = F((Newest.instant - history[2].instant) * TickMs, 1000)

\* The head has moved between the records two and three slots older than the
\* newest one, whose velocity is the one to the older of them.
C18_Witness ==
    /\ Len(history) >= 4
    /\ Elapsed
    /\ VelocityTo(3) # VelocityTo(4)
    /\ history[3].pose # history[4].pose
    /\ Newest.v = VelocityTo(4)

\* A step in which the dispatcher takes a Signal, the time in ms since it took
\* the one before (since it started, for the first), and whether the step
\* issues a command.
Takes == Len(received') = Len(received) + 1
SincePreviousMs ==
    (clock - (IF received = <<>> THEN 0 ELSE received[Len(received)].at)) * TickMs
Issues == Len(commands') = Len(commands) + 1

\* The debounce interval runs from the Signal taken last, issued or not.
RestartStep ==
    Takes =>
        /\ SincePreviousMs < 200 => ~Issues
        /\ (SincePreviousMs >= 200 /\ pcD' # "dead") => Issues

\* C19: a Signal taken less than 200 ms after the Signal taken before it is
\* dropped and restarts the debounce interval: of Signals that each come less
\* than 200 ms after the one before, none after the first leads to a
\* command, however old the last command is; a Signal taken 200 ms or more
\* after the one before leads to a command.
C19_SuppressedRestarts == [][RestartStep]_vars

\* The Signal taken last was dropped although the last command was issued
\* more than 200 ms before it.
C19_Witness ==
    /\ commands # <<>>
    /\ received # <<>>
    /\ pcD = "connect"
    /\ (received[Len(received)].at - commands[Len(commands)].at) * TickMs > 200

\* The classifier waits in sig_tx.send() for room in the signal channel.
Blocked == pcC = "send" /\ IsFull(sig)

\* While the classifier is blocked, ingestion can take the next datagram.
IngestionRuns ==
    (Blocked /\ alive /\ nDatagrams < MaxLiveDatagrams) =>
        ENABLED Ingest(Sample(1, 0), MaxLiveDatagrams)

\* A sample decoded while the classifier is blocked and the raw channel is
\* full is dropped, and the classifier and the process are as before.
DropsWhileBlocked ==
    (Blocked /\ IsFull(raw) /\ decoded' # decoded) =>
        (raw' = raw /\ pcC' = pcC /\ alive')

\* C20: the pipeline does not deadlock: while the classifier is blocked sending
\* a Signal into the full signal channel, ingestion keeps taking datagrams and
\* drops the samples; and, the dispatcher's calls succeeding, a classifier
\* that has a Signal to send eventually has sent it and is back at the top of
\* its loop, about to receive samples.
C20_NoDeadlock ==
    /\ []IngestionRuns
    /\ [][DropsWhileBlocked]_vars
    /\ (pcC = "send") ~> (pcC = "top")

\* The classifier is blocked, and ingestion has since queued one sample and
\* dropped another.
C20_Witness ==
    /\ Blocked
    /\ IsFull(raw)
    /\ raw[1].seq > processed[Len(processed)].seq
    /\ Len(decoded) > raw[1].seq

====
